---- MODULE Spec2Model ----
(***************************************************************************)
(* Model of the agent orchestration loop (app/host/orchestrator.py), the   *)
(* tool registry (app/mcp/server.py) and the dynamic tool synthesizer      *)
(* (app/mcp/tools/dynamic_tools.py).                                       *)
(*                                                                         *)
(* Strings are sequences of tokens: a token is a piece of text that is     *)
(* never split, and the words the code searches for ("error", "failed")    *)
(* are tokens of their own or are listed for the token that holds them, so *)
(* that a substring test is a test on tokens.                              *)
(* A call of process_user_query is cut at the points where it talks to the *)
(* outside: the completion request and each tool invocation.               *)
(***************************************************************************)
EXTENDS Integers, Sequences, FiniteSets, TLC

max_iterations == 20

\* Bound of the model: a handler is not offered an error outcome any more
\* once the failure counter of its tool has reached this value.
MaxFailures == 4

---------------------------------------------------------------------------
(* Text *)

\* str.lower() on one token.
Lower(t) ==
  CASE t \in {"Error", "ERROR", "error"} -> "error"
    [] t \in {"Failed", "FAILED", "failed"} -> "failed"
    [] OTHER -> t

\* The searched words inside a token that is longer than one word.
WordsIn(t) == IF t = "get_error_logs" THEN {"error"} ELSE {}

\* w in s.lower()
HasWord(s, w) == \E j \in DOMAIN s : Lower(s[j]) = w \/ w \in WordsIn(s[j])

\* "error" in s.lower() or "failed" in s.lower()
is_error(s) == HasWord(s, "error") \/ HasWord(s, "failed")

RECURSIVE JoinLines(_)
\* "\n".join(parts)
JoinLines(parts) ==
  IF parts = <<>> THEN <<>>
  ELSE IF Len(parts) = 1 THEN <<parts[1]>>
  ELSE <<parts[1], "\n">> \o JoinLines(Tail(parts))

GenericMessage == <<"I have completed the requested tasks.">>

AbortMessage(e) == <<"An error occurred while processing your request: ">> \o e

NotFoundError(tool_name) == <<"Tool '", tool_name, "' ", "not found", ".">>

CriticalMessage(e) ==
  <<"Critical ", "Error", ": An unexpected exception occurred while running the tool: ">>
    \o e \o <<". Check argument types and API endpoint format.">>

EscalatedMessage(tool_name) ==
  <<"Error", ": The tool '", tool_name, "' has ", "failed",
    " multiple times. Consider using a different approach or check the Salesforce API version.">>

\* RetryMessage that does not quote the result of the tool.
RetryMessage_bare(raw) ==
  <<"Error", ": Tool call ", "failed", ". Re-evaluate the parameters and try again.">>

RetryMessage(raw) ==
  <<"Error", ": Tool call ", "failed", ": '">> \o raw
    \o <<"'. Re-evaluate the parameters and try again.">>

\* b[:len(a)] == a
IsPrefix(a, b) == Len(a) <= Len(b) /\ SubSeq(b, 1, Len(a)) = a

\* `part in text` for a non-empty part.
Contains(text, part) ==
  \E j \in 0..(Len(text) - Len(part)) : SubSeq(text, j + 1, j + Len(part)) = part

---------------------------------------------------------------------------
(* Structured values of the provider and their native form *)

\* A node is a record [t, kind, val, kids]; kids is a sequence of [k, v].
Node(t, kind, val, kids) == [t |-> t, kind |-> kind, val |-> val, kids |-> kids]
KV(k, v) == [k |-> k, v |-> v]

PStruct(kids)   == Node("Struct", "", "", kids)
PList(kids)     == Node("ListValue", "", "", kids)
PValue(kind, val, kids) == Node("Value", kind, val, kids)
PString(s)      == PValue("string_value", s, <<>>)
PNumber(n)      == PValue("number_value", n, <<>>)
PNull           == PValue("null_value", "", <<>>)
PUnset          == PValue("", "", <<>>)
PMapping(kids)  == Node("Mapping", "", "", kids)
\* The sequence a MapComposite hands out for a member that is a list: a
\* MutableSequence of proto-plus, neither a ListValue nor a Mapping.
PRepeated(kids) == Node("RepeatedComposite", "", "", kids)
Native(val)     == Node("native", "", val, <<>>)

NDict(kids)     == Node("dict", "", "", kids)
NList(kids)     == Node("list", "", "", kids)
NNone           == Node("None", "", "", <<>>)
Raised(e)       == Node("raise", "", e, <<>>)

IsRaised(n) == n.t = "raise"

\* The first exception among converted children, in evaluation order.
FirstRaised(kids) ==
  LET js == {j \in DOMAIN kids : IsRaised(kids[j].v)}
  IN  IF js = {} THEN NNone
      ELSE kids[CHOOSE j \in js : \A m \in js : j <= m].v

RECURSIVE _convert_proto_to_dict(_)
_convert_proto_to_dict(obj) ==
  LET conv == [j \in DOMAIN obj.kids |->
                 KV(obj.kids[j].k, _convert_proto_to_dict(obj.kids[j].v))]
      bad  == \E j \in DOMAIN conv : IsRaised(conv[j].v)
  IN  CASE obj.t = "Struct"    -> IF bad THEN FirstRaised(conv) ELSE NDict(conv)
        [] obj.t = "ListValue" -> IF bad THEN FirstRaised(conv) ELSE NList(conv)
        [] obj.t = "Value" ->
             IF obj.kind \in {"struct_value", "list_value"}
               THEN conv[1].v
             ELSE IF obj.kind = "null_value" THEN NNone
             ELSE IF obj.kind = ""
               THEN Raised(<<"attribute name must be string, not 'NoneType'">>)
             ELSE Native(obj.val)
        [] obj.t = "Mapping"   -> IF bad THEN FirstRaised(conv) ELSE NDict(conv)
        [] OTHER -> obj

---------------------------------------------------------------------------
(* JSON schemas and _sanitize_schema (app/host/orchestrator.py) *)

\* A JSON value after json.loads: a dict (kids in insertion order), a list
\* (kids with empty keys), None, or a scalar.
HasKey(d, k) == \E j \in DOMAIN d.kids : d.kids[j].k = k
DictGet(d, k) == IF HasKey(d, k) THEN d.kids[CHOOSE j \in DOMAIN d.kids : d.kids[j].k = k].v
                 ELSE NNone
Str(val) == Native(val)
Items(values) == [j \in DOMAIN values |-> KV("", values[j])]

\* Upper writing the name of the enum member ("TYPE_STRING").
Upper_enum(t) ==
  CASE t = "string"  -> "TYPE_STRING"
    [] t = "integer" -> "TYPE_INTEGER"
    [] t = "object"  -> "TYPE_OBJECT"
    [] t = "array"   -> "TYPE_ARRAY"
    [] t = "null"    -> "TYPE_NULL"
    [] t = "TYPE_STRING"  -> "TYPE_TYPE_STRING"
    [] t = "TYPE_INTEGER" -> "TYPE_TYPE_INTEGER"
    [] t = "TYPE_OBJECT"  -> "TYPE_TYPE_OBJECT"
    [] t = "TYPE_ARRAY"   -> "TYPE_TYPE_ARRAY"
    [] t = "TYPE_NULL"    -> "TYPE_TYPE_NULL"
    [] OTHER -> t

\* str.upper() on one token.
Upper(t) ==
  CASE t = "string"  -> "STRING"
    [] t = "integer" -> "INTEGER"
    [] t = "object"  -> "OBJECT"
    [] t = "array"   -> "ARRAY"
    [] t = "null"    -> "NULL"
    [] OTHER -> t

\* Line 50.
keys_to_pop == {"title", "default", "additionalProperties"}

RECURSIVE FirstNonNull(_)
\* Line 61: next((item for item in schema['anyOf'] if item.get('type') != 'null'), None)
\* over the elements of a list; an element that is no dict has no `get`.
FirstNonNull(items) ==
  IF items = <<>> THEN NNone
  ELSE IF items[1].v.t /= "dict"
    THEN Raised(<<"object has no attribute 'get'">>)
  ELSE IF DictGet(items[1].v, "type") /= Str("null") THEN items[1].v
  ELSE FirstNonNull(Tail(items))

\* Line 61 for any value under 'anyOf': iterating a dict yields its keys,
\* iterating a string its characters, and None or a number is not iterable.
non_null_schema(anyOf) ==
  CASE anyOf.t = "list" -> FirstNonNull(anyOf.kids)
    [] anyOf.t = "dict" ->
         IF anyOf.kids = <<>> THEN NNone
         ELSE Raised(<<"object has no attribute 'get'">>)
    [] OTHER -> Raised(<<"object is not iterable">>)

\* Lines 72-73.
UpperType(d) ==
  NDict([j \in DOMAIN d.kids |->
           IF d.kids[j].k = "type" /\ d.kids[j].v.t = "native"
             THEN KV("type", Str(Upper(d.kids[j].v.val)))
             ELSE d.kids[j]])

RECURSIVE _sanitize_schema(_)
\* Lines 42-75. The result, or the exception raised on the way.
_sanitize_schema(schema) ==
  LET visited == [j \in DOMAIN schema.kids |->
                    KV(schema.kids[j].k,
                       IF schema.kids[j].v.t \in {"dict", "list"}
                         THEN _sanitize_schema(schema.kids[j].v)
                         ELSE schema.kids[j].v)]
      bad     == \E j \in DOMAIN visited : IsRaised(visited[j].v)
  IN  CASE schema.t = "dict" ->
             IF bad THEN FirstRaised(visited)
             ELSE
               LET kept == SelectSeq(visited, LAMBDA e : e.k \notin keys_to_pop)
               IN  IF ~HasKey(NDict(kept), "anyOf") THEN UpperType(NDict(kept))
                   ELSE
                     LET chosen == non_null_schema(DictGet(NDict(kept), "anyOf"))
                         copied == IF chosen.t = "dict"
                                     THEN SelectSeq(chosen.kids,
                                                    LAMBDA e : ~HasKey(NDict(kept), e.k))
                                     ELSE <<>>
                     IN  IF IsRaised(chosen) THEN chosen
                         ELSE UpperType(NDict(SelectSeq(kept \o copied,
                                                        LAMBDA e : e.k /= "anyOf")))
        [] schema.t = "list" -> IF bad THEN FirstRaised(visited) ELSE NList(visited)
        [] OTHER -> schema

\* The JSON schema pydantic writes for one parameter, by its annotation.
Field(keys) ==
  NDict(keys \o <<KV("description", Str("")), KV("title", Str("P"))>>)
TypeOnly(t) == NDict(<<KV("type", Str(t))>>)
AnyOf(branches) == KV("anyOf", NList(Items(branches)))

FieldSamples ==
  { \* p: str
    Field(<<KV("type", Str("string"))>>),
    \* p: Optional[str] = None
    Field(<<AnyOf(<<TypeOnly("string"), TypeOnly("null")>>), KV("default", NNone)>>),
    \* a nullable union whose null branch comes first
    Field(<<AnyOf(<<TypeOnly("null"), TypeOnly("integer")>>)>>),
    \* p: None
    Field(<<KV("type", Str("null"))>>),
    \* p: List[str]
    Field(<<KV("items", TypeOnly("string")), KV("type", Str("array"))>>),
    \* p: Dict[str, int]
    Field(<<KV("additionalProperties", TypeOnly("integer")), KV("type", Str("object"))>>),
    \* p: Optional[List[Optional[str]]] = None
    Field(<<AnyOf(<<NDict(<<KV("items", NDict(<<AnyOf(<<TypeOnly("string"), TypeOnly("null")>>)>>)),
                           KV("type", Str("array"))>>),
                    TypeOnly("null")>>),
            KV("default", NNone)>>),
    \* p: Any
    Field(<<>>),
    \* a union with a null branch only, and one without any branch
    Field(<<AnyOf(<<TypeOnly("null")>>)>>),
    Field(<<AnyOf(<<>>)>>) }

\* model_json_schema() of the model create_model_from_func builds.
ToolSchema(properties) ==
  NDict(<<KV("properties", NDict(properties)),
          KV("required", NList(Items([j \in DOMAIN properties |-> Str(properties[j].k)]))),
          KV("title", Str("fSchema")),
          KV("type", Str("object"))>>)

\* The schema of a tool with a parameter typed by a nested model M.
NestedSchema(f) ==
  NDict(<<KV("$defs", NDict(<<KV("M", ToolSchema(<<KV("m", f)>>))>>)),
          KV("properties", NDict(<<KV("p", NDict(<<KV("$ref", Str("#/$defs/M"))>>))>>)),
          KV("required", NList(Items(<<Str("p")>>))),
          KV("title", Str("nSchema")),
          KV("type", Str("object"))>>)

SchemaSamples ==
  { ToolSchema(<<KV(name, f)>>) :
      name \in {"p", "title", "default", "additionalProperties"}, f \in FieldSamples }
  \cup { NestedSchema(f) : f \in FieldSamples }
  \cup { ToolSchema(<<KV("p", f), KV("q", g)>>) : f \in FieldSamples, g \in FieldSamples }

---------------------------------------------------------------------------
(* Functions, the registry and registration (app/mcp/server.py) *)

\* A Python function object: its __name__, the kind of its signature and
\* what its body does when called.
\*   sig "typed":   every parameter carries a plain annotation
\*   sig "untyped": a parameter has no annotation (pydantic cannot build a field)
\*   sig "nested":  a parameter is annotated with a nested model, whose JSON
\*                  schema carries "$defs"/"$ref" keys
Func(name, sig, body) == [name |-> name, sig |-> sig, body |-> body]

execute_soql_query == Func("execute_soql_query", "typed", "soql")
execute_universal_api_request == Func("execute_universal_api_request", "typed", "api")
create_python_tool_for_salesforce == Func("create_python_tool_for_salesforce", "typed", "create")

\* First line of the docstring: each function carries its own.
parse_docstring(func) == <<"doc of ", func.name, " (", func.body, ")">>

\* pydantic.create_model over the signature: the model class, or the exception.
create_model_from_func(func) ==
  IF func.sig = "untyped"
    THEN Raised(<<"Unable to generate pydantic-core schema">>)
    ELSE Node("schema", func.sig, func.name, <<>>)

\* The registry is the dict in insertion order: a sequence of entries, each
\* with its key and the fields of the descriptor stored under it.
KeysOf(reg) == [j \in DOMAIN reg |-> reg[j].key]
Names(reg) == {reg[j].key : j \in DOMAIN reg}
IndexOf(reg, name) == CHOOSE j \in DOMAIN reg : reg[j].key = name
Lookup(reg, name) == reg[IndexOf(reg, name)]

\* SetItem keeping the entry of an existing key, as `setdefault` does.
SetItem_setdefault(reg, d) ==
  IF d.key \in Names(reg) THEN reg ELSE Append(reg, d)

\* SetItem putting the entry last, as after `del` of the existing key.
SetItem_last(reg, d) ==
  Append(SelectSeq(reg, LAMBDA e : e.key /= d.key), d)

\* tool_registry[tool_name] = {...}: a dict keeps the position of an existing
\* key and puts a new key last.
SetItem(reg, d) ==
  IF d.key \in Names(reg)
    THEN [reg EXCEPT ![IndexOf(reg, d.key)] = d]
    ELSE Append(reg, d)

\* Line 69, mcp_server.tool()(func): FastMCP takes no function named
\* "<lambda>" as a tool.
mcp_tool(func) ==
  IF func.name = "<lambda>"
    THEN Raised(<<"You must provide a name for lambda functions">>)
    ELSE NNone

\* add_tool_to_registry(func): the registry afterwards and the exception
\* raised, if any.
add_tool_to_registry(reg, func) ==
  LET schema == create_model_from_func(func)
  IN  IF IsRaised(schema)
        THEN [reg |-> reg, exc |-> schema]
        ELSE [reg |-> SetItem(reg, [key         |-> func.name,
                                    name        |-> func.name,
                                    description |-> parse_docstring(func),
                                    schema      |-> schema,
                                    function    |-> func]),
              exc |-> mcp_tool(func)]

RECURSIVE register_all(_, _)
\* The @register_tool decorators run at import, in file order.
register_all(reg, funcs) ==
  IF funcs = <<>> THEN reg
  ELSE register_all(add_tool_to_registry(reg, Head(funcs)).reg, Tail(funcs))

StaticTools ==
  <<execute_soql_query, execute_universal_api_request, create_python_tool_for_salesforce>>

---------------------------------------------------------------------------
(* Dynamic synthesis (create_python_tool_for_salesforce) *)

\* Source text submitted to the synthesizer: whether it compiles, and the
\* bindings that executing it leaves in local_scope, in binding order.
Code(id, compiles, bindings) == [id |-> id, compiles |-> compiles, bindings |-> bindings]
Bind(key, val) == [key |-> key, isfunction |-> TRUE, val |-> val]
BindOther(key) == [key |-> key, isfunction |-> FALSE, val |-> Func(key, "", "")]

f_tool == Func("f", "typed", "ok")
f_raising == Func("f", "typed", "raises")
g_tool == Func("g", "typed", "ok")
h_tool == Func("h", "untyped", "ok")
n_tool == Func("n", "nested", "ok")

CodeSamples ==
  { Code("syntax", FALSE, <<>>),
    Code("zero",   TRUE,  <<BindOther("x")>>),
    Code("one_f",  TRUE,  <<BindOther("x"), Bind("f", f_tool)>>),
    Code("two_fg", TRUE,  <<Bind("f", f_raising), Bind("g", g_tool)>>),
    Code("one_h",  TRUE,  <<Bind("h", h_tool)>>),
    Code("one_n",  TRUE,  <<Bind("n", n_tool)>>) }

\* Source submitted by clients of the /mcp endpoint, besides the above.
f_two == Func("f", "typed2", "ok")

McpCodeSamples ==
  { Code("one_g", TRUE, <<Bind("g", g_tool)>>),
    Code("new_f", TRUE, <<Bind("f", f_two)>>) }

\* Source whose function carries one of the searched words in its name.
e_tool == Func("get_error_logs", "typed", "ok")

\* `t = lambda: "done"`: the binding is t, the function's __name__ is not.
lambda_tool == Func("<lambda>", "typed", "ok")

NamedCodeSamples ==
  { Code("one_e",  TRUE, <<Bind("get_error_logs", e_tool)>>),
    Code("lambda", TRUE, <<Bind("t", lambda_tool)>>) }

CodeOf(id) == CHOOSE c \in CodeSamples \cup McpCodeSamples \cup NamedCodeSamples : c.id = id

FunctionsOf(code) == {j \in DOMAIN code.bindings : code.bindings[j].isfunction}

\* Line 290: the first function of local_scope.
FirstFunction(code) ==
  code.bindings[CHOOSE j \in FunctionsOf(code) : \A m \in FunctionsOf(code) : j <= m].val

SynthSuccess(name) ==
  <<"Successfully defined and registered new tool: '", name,
    "'. You may now call this tool to complete the task.">>

SynthSyntaxError(code) ==
  <<"Syntax ", "Error", " in generated code at line 1: invalid syntax">>

SynthFailed(e, code) ==
  <<"Failed", " to define the new tool. ", "Error", ": ">> \o e
    \o <<"Full code: ", code.id>>

\* The body of create_python_tool_for_salesforce: the registry afterwards and
\* the returned text.
Synthesize(reg, code) ==
  IF ~code.compiles
    THEN [reg |-> reg, out |-> SynthSyntaxError(code)]
  ELSE
    LET fs == FunctionsOf(code)
    IN  IF fs = {}
          THEN [reg |-> reg,
                out |-> SynthFailed(<<"No function was defined in the provided code string.">>, code)]
        ELSE
          LET first    == CHOOSE j \in fs : \A m \in fs : j <= m
              new_func_name == code.bindings[first].key
              new_func == code.bindings[first].val
              r        == add_tool_to_registry(reg, new_func)
          IN  IF IsRaised(r.exc)
                THEN [reg |-> r.reg, out |-> SynthFailed(r.exc.val, code)]
              ELSE IF new_func_name \notin Names(r.reg)
                THEN [reg |-> r.reg,
                      out |-> SynthFailed(<<"Tool '", new_func_name,
                                "' was not successfully registered in tool_registry.">>, code)]
              ELSE [reg |-> r.reg, out |-> SynthSuccess(new_func_name)]

---------------------------------------------------------------------------
(* Tool handlers *)

Keys(d) == [j \in DOMAIN d.kids |-> d.kids[j].k]
Get(d, k) == d.kids[CHOOSE j \in DOMAIN d.kids : d.kids[j].k = k].v

\* Parameter names of the handlers.
ParamsOf(func) ==
  CASE func.body = "soql"   -> <<"query">>
    [] func.body = "api"    -> <<"method">>
    [] func.body = "create" -> <<"function_code">>
    [] OTHER                -> <<>>

SoqlNoRecords == <<"Query executed successfully: No records found.">>
SoqlError     == <<"SOQL Query ", "Error", ": MALFORMED_QUERY">>

\* tool_function(**tool_args): the possible outcomes, each with the registry
\* afterwards and the returned text or the exception raised.
Returned(text) == Node("str", "", text, <<>>)
Outcome(reg, out) == [reg |-> reg, out |-> out]

Invoke(reg, func, tool_args) ==
  IF Keys(tool_args) /= ParamsOf(func)
    THEN {Outcome(reg, Raised(<<"got an unexpected keyword argument">>))}
  ELSE CASE func.body \in {"soql", "api"} ->
              {Outcome(reg, Returned(SoqlNoRecords)), Outcome(reg, Returned(SoqlError))}
         [] func.body = "create" ->
              LET r == Synthesize(reg, CodeOf(Get(tool_args, "function_code").val))
              IN  {Outcome(r.reg, Returned(r.out))}
         [] func.body = "raises" ->
              {Outcome(reg, Raised(<<"boom">>))}
         [] OTHER ->
              {Outcome(reg, Returned(<<"done">>))}

---------------------------------------------------------------------------
(* Provider responses *)

FunctionCall(name, args) == [name |-> name, args |-> args]
NoCall == FunctionCall("", PMapping(<<>>))

TextPart(text) == [text |-> text, function_call |-> NoCall]
CallPart(fc)   == [text |-> "", function_call |-> fc]
Content(role, parts) == [role |-> role, parts |-> parts]
Response(candidates) == [candidates |-> candidates]

\* Truth value of a message: some field is set.
Truthy(content) == content.role /= "" \/ content.parts /= <<>>

cSoql      == FunctionCall("execute_soql_query", PMapping(<<KV("query", PString("SELECT"))>>))
cSoqlBadKw == FunctionCall("execute_soql_query", PMapping(<<KV("soql_query", Native("SELECT"))>>))
cSoqlUnset == FunctionCall("execute_soql_query",
                PMapping(<<KV("query", PValue("struct_value", "", <<KV("", PStruct(<<KV("a", PUnset)>>))>>))>>))
cX         == FunctionCall("X", PMapping(<<KV("a", PNumber("1"))>>))
cF         == FunctionCall("f", PMapping(<<>>))
cCreate(id) == FunctionCall("create_python_tool_for_salesforce",
                PMapping(<<KV("function_code", Native(id))>>))

CallSamples ==
  {cSoql, cSoqlBadKw, cSoqlUnset, cX, cF} \cup {cCreate(c.id) : c \in CodeSamples}

CallResponse(calls) ==
  Response(<<Content("model", [j \in DOMAIN calls |-> CallPart(calls[j])])>>)

ResponseSamples ==
  { Response(<<>>),
    Response(<<Content("", <<>>)>>),
    Response(<<Content("model", <<>>)>>),
    Response(<<Content("model", <<TextPart("Here are the records.")>>)>>),
    Response(<<Content("model", <<TextPart("First."), TextPart("Second.")>>)>>),
    Response(<<Content("model", <<TextPart("Let me check."), CallPart(cSoql)>>)>>),
    CallResponse(<<cSoql, cSoql>>),
    CallResponse(<<cX, cSoql>>),
    CallResponse(<<cCreate("one_f"), cF>>) }
  \cup {CallResponse(<<c>>) : c \in CallSamples}

\* Answers of a provider that has tools synthesized and calls a raising
\* handler inside a batch.
DispatchSamples ==
  { Response(<<Content("model", <<TextPart("Here are the records.")>>)>>),
    CallResponse(<<cCreate("one_e")>>),
    CallResponse(<<cCreate("two_fg")>>),
    CallResponse(<<cCreate("one_n")>>),
    CallResponse(<<cF>>),
    CallResponse(<<cF, cSoql>>) }

NoResponse == Response(<<>>)

RECURSIVE SelectSeq2(_, _)
\* [part.function_call for part in parts if part.function_call]
SelectSeq2(parts, wantCalls) ==
  IF parts = <<>> THEN <<>>
  ELSE LET p == Head(parts)
           rest == SelectSeq2(Tail(parts), wantCalls)
       IN  IF wantCalls
             THEN (IF p.function_call /= NoCall THEN <<p.function_call>> ELSE <<>>) \o rest
             ELSE (IF p.text /= "" THEN <<p.text>> ELSE <<>>) \o rest

FunctionCallsOf(content) == SelectSeq2(content.parts, TRUE)
TextsOf(content) == SelectSeq2(content.parts, FALSE)

\* FinalText keeping the first text part only.
FinalText_first(resp) ==
  IF resp.candidates = <<>>
    THEN GenericMessage
    ELSE LET texts == TextsOf(resp.candidates[1])
         IN  IF texts = <<>> THEN GenericMessage ELSE <<texts[1]>>

\* Lines 192-202: the text extracted from the last response.
FinalText(resp) ==
  IF resp.candidates = <<>>
    THEN GenericMessage
    ELSE LET final_text == JoinLines(TextsOf(resp.candidates[1]))
         IN  IF final_text = <<>> THEN GenericMessage ELSE final_text

---------------------------------------------------------------------------
(* Requests and responses of the /mcp endpoint (app/main.py) *)

MethodNotFound == -32601
InternalError  == -32603

\* A request: whether it carries the API key the deployment expects, the
\* shape of its body ("invalid": not JSON, "array": JSON but not an object,
\* "object"), and the members "id", "method" and "params" of an object
\* ("null", "" and NoParams when absent).
JsonBody(authorized, shape, id, method, params) ==
  [authorized |-> authorized, shape |-> shape, id |-> id, method |-> method,
   params |-> params]
NoParams == [present |-> FALSE, name |-> "", arguments |-> NDict(<<>>)]
Params(name, arguments) == [present |-> TRUE, name |-> name, arguments |-> arguments]
NoBody == JsonBody(TRUE, "none", "null", "", NoParams)

CallBody(id, name, arguments) ==
  JsonBody(TRUE, "object", id, "tools/call", Params(name, NDict(arguments)))

McpBodies ==
  { JsonBody(FALSE, "object", "7", "tools/list", NoParams),
    JsonBody(TRUE, "invalid", "null", "", NoParams),
    JsonBody(TRUE, "array", "null", "", NoParams),
    JsonBody(TRUE, "object", "7", "initialize", NoParams),
    JsonBody(TRUE, "object", "7", "tools/list", NoParams),
    JsonBody(TRUE, "object", "null", "tools/list", NoParams),
    JsonBody(TRUE, "object", "7", "resources/list", NoParams),
    JsonBody(TRUE, "object", "7", "", NoParams),
    JsonBody(TRUE, "object", "7", "tools/call", NoParams),
    CallBody("7", "X", <<>>),
    CallBody("7", "f", <<>>),
    CallBody("7", "execute_soql_query", <<KV("query", Native("SELECT"))>>),
    CallBody("7", "execute_soql_query", <<KV("soql_query", Native("SELECT"))>>) }
  \cup { CallBody("7", "create_python_tool_for_salesforce", <<KV("function_code", Native(id))>>) :
           id \in {"syntax", "one_f", "two_fg", "one_n", "one_g", "new_f"} }

\* What the client gets: a JSON-RPC result, a JSON-RPC error, the HTTP 401
\* of the key check, or the HTTP 500 of an exception that left the handler.
McpAnswer(kind, id, code, message, result) ==
  [kind |-> kind, id |-> id, code |-> code, message |-> message, result |-> result]
McpResult(id, result)        == McpAnswer("result", id, 0, <<>>, result)
McpError(id, code, message)  == McpAnswer("error", id, code, message, <<>>)
McpUnauthorized              == McpAnswer("unauthorized", "null", 401, <<"Invalid API key">>, <<>>)
McpEscaped(e)                == McpAnswer("escaped", "null", 0, e, <<>>)
NoMcpResponse                == McpAnswer("none", "null", 0, <<>>, <<>>)

\* Lines 102-108.
ListTools(reg) ==
  [j \in DOMAIN reg |-> [name        |-> reg[j].key,
                         description |-> reg[j].description,
                         inputSchema |-> reg[j].schema]]

Served(reg, answer, invoked) == [reg |-> reg, answer |-> answer, invoked |-> invoked]

\* Lines 82-158: the possible outcomes of serving one request that passed
\* the key check, each with the registry afterwards.
Serve(reg, body) ==
  IF body.shape = "invalid"
    THEN {Served(reg, McpError("null", InternalError, <<"Expecting value">>), FALSE)}
  ELSE IF body.shape = "array"
    THEN {Served(reg, McpEscaped(<<"'list' object has no attribute 'get'">>), FALSE)}
  ELSE CASE body.method = "initialize" ->
              {Served(reg, McpResult(body.id, <<"protocolVersion 2025-06-18">>), FALSE)}
         [] body.method = "tools/list" ->
              {Served(reg, McpResult(body.id, ListTools(reg)), FALSE)}
         [] body.method = "tools/call" ->
              IF ~body.params.present
                THEN {Served(reg, McpError(body.id, InternalError, <<"'params'">>), FALSE)}
              ELSE IF body.params.name \notin Names(reg)
                THEN {Served(reg, McpError(body.id, MethodNotFound,
                                           <<"Tool '", body.params.name, "' not found">>), FALSE)}
              ELSE {Served(o.reg,
                           IF IsRaised(o.out)
                             THEN McpError(body.id, InternalError, <<"Tool error: ">> \o o.out.val)
                             ELSE McpResult(body.id, o.out.val),
                           TRUE) :
                      o \in Invoke(reg, Lookup(reg, body.params.name).function,
                                   body.params.arguments)}
         [] OTHER ->
              {Served(reg, McpError(body.id, MethodNotFound,
                                    <<"Method '", body.method, "' not found">>), FALSE)}

---------------------------------------------------------------------------
(* State *)

VARIABLES
  tool_registry,           \* app.mcp.server.tool_registry: descriptors in dict order
  pc,                      \* position of the current call of process_user_query
  i,                       \* loop variable of `for i in range(max_iterations)`
  history,                 \* roles of the turns of `history`
  tool_failure_counts,     \* defaultdict(int): tool name -> consecutive failures
  current_tools,           \* declarations built at the top of the iteration
  response,                \* last value returned by model.generate_content
  call_idx,                \* number of function_calls of `response` already dispatched
  function_response_parts, \* results of the current batch
  result,                  \* value returned by process_user_query
  requests,                \* completion requests made by the current call
  last_dispatch,           \* what the latest dispatch of a tool call did
  err_streak,              \* tool name -> error-classified results since the last
                           \* success-classified result of that tool
  failed_earlier,          \* tools whose counter stood at 3 or more when the previous
                           \* call of process_user_query ended (kept until the
                           \* current call has dispatched its first tool call)
  provider_failed,         \* a completion request of the current call raised
  only_valid_calls,        \* every answer of the model so far requested tool calls,
                           \* each of a registered tool with arguments it accepts
  mcp_pc,                  \* position of the call of mcp_endpoint in flight
  mcp_request,             \* latest request received by mcp_endpoint
  mcp_response,            \* what mcp_endpoint answered to it
  mcp_invoked,             \* whether serving it invoked a tool handler
  listing_pc,              \* position inside lines 93-106 of the iteration in flight
  sanitized_schemas,       \* locals of lines 93-96
  tool_names,
  tool_descriptions,
  schema_copy,             \* a dict of schema_copy (line 93), sanitized in place
  passes,                  \* number of times _sanitize_schema ran on it
  proto_obj,               \* the object handed to _convert_proto_to_dict
  converted,               \* what _convert_proto_to_dict returned for it
  function_code,           \* the source handed to create_python_tool_for_salesforce
  synthesized              \* what create_python_tool_for_salesforce returned for it

server_vars == <<mcp_pc, mcp_request, mcp_response, mcp_invoked, listing_pc,
                 sanitized_schemas, tool_names, tool_descriptions>>

function_vars == <<schema_copy, passes, proto_obj, converted, function_code, synthesized>>

vars == <<tool_registry, pc, i, history, tool_failure_counts, current_tools, response,
          call_idx, function_response_parts, result, requests, last_dispatch, err_streak, failed_earlier,
          provider_failed, only_valid_calls, server_vars, function_vars>>

NameUniverse ==
  {c.name : c \in CallSamples} \cup {f.name : f \in {f_tool, f_raising, g_tool, h_tool, n_tool, e_tool}}
    \cup {StaticTools[j].name : j \in DOMAIN StaticTools}

NoDispatch == [name |-> "", kind |-> "none", raw |-> <<>>, text |-> <<>>, invoked |-> FALSE]
Dispatched(name, kind, raw, text, invoked) ==
  [name |-> name, kind |-> kind, raw |-> raw, text |-> text, invoked |-> invoked]

\* FunctionResponse named after the first call of the batch.
FunctionResponse_first(name, text) ==
  [name |-> FunctionCallsOf(response.candidates[1])[1].name, response |-> text]

FunctionResponse(name, text) == [name |-> name, response |-> text]

\* The process after import: the static tools registered, nothing served yet.
ProcessInit ==
  /\ tool_registry = register_all(<<>>, StaticTools)
  /\ pc = "idle"
  /\ i = 0
  /\ history = <<>>
  /\ tool_failure_counts = [t \in NameUniverse |-> 0]
  /\ current_tools = <<>>
  /\ response = NoResponse
  /\ call_idx = 0
  /\ function_response_parts = <<>>
  /\ result = <<>>
  /\ requests = 0
  /\ last_dispatch = NoDispatch
  /\ err_streak = [t \in NameUniverse |-> 0]
  /\ failed_earlier = {}
  /\ provider_failed = FALSE
  /\ only_valid_calls = TRUE
  /\ mcp_pc = "idle"
  /\ mcp_request = NoBody
  /\ mcp_response = NoMcpResponse
  /\ mcp_invoked = FALSE
  /\ listing_pc = "idle"
  /\ sanitized_schemas = <<>>
  /\ tool_names = <<>>
  /\ tool_descriptions = <<>>

NotConverted == Node("pending", "", "", <<>>)

Init ==
  /\ ProcessInit
  /\ schema_copy = NDict(<<>>)
  /\ passes = 0
  /\ proto_obj = NNone
  /\ converted = NotConverted
  /\ function_code = ""
  /\ synthesized = <<>>

---------------------------------------------------------------------------
(* process_user_query *)

\* NewQuery with the failure counters kept in module state instead of a
\* local of the call.
NewQuery_shared ==
  /\ pc \in {"idle", "returned", "raised"}
  /\ pc' = "loop"
  /\ i' = 0
  /\ history' = <<"user">>
  /\ tool_failure_counts' = tool_failure_counts
  /\ current_tools' = <<>>
  /\ response' = NoResponse
  /\ call_idx' = 0
  /\ function_response_parts' = <<>>
  /\ result' = <<>>
  /\ requests' = 0
  /\ last_dispatch' = NoDispatch
  /\ err_streak' = [t \in NameUniverse |-> 0]
  /\ failed_earlier' = {t \in NameUniverse : tool_failure_counts[t] >= 3}
  /\ provider_failed' = FALSE
  /\ only_valid_calls' = TRUE
  /\ UNCHANGED <<tool_registry, server_vars, function_vars>>

\* Lines 82-89: a query arrives; the conversation state is created.
NewQuery ==
  /\ pc \in {"idle", "returned", "raised"}
  /\ pc' = "loop"
  /\ i' = 0
  /\ history' = <<"user">>
  /\ tool_failure_counts' = [t \in NameUniverse |-> 0]
  /\ current_tools' = <<>>
  /\ response' = NoResponse
  /\ call_idx' = 0
  /\ function_response_parts' = <<>>
  /\ result' = <<>>
  /\ requests' = 0
  /\ last_dispatch' = NoDispatch
  /\ err_streak' = [t \in NameUniverse |-> 0]
  /\ failed_earlier' = {t \in NameUniverse : tool_failure_counts[t] >= 3}
  /\ provider_failed' = FALSE
  /\ only_valid_calls' = TRUE
  /\ UNCHANGED <<tool_registry, server_vars, function_vars>>

\* protos.FunctionDeclaration(parameters=...) accepts the keys of a plain
\* parameter schema only; "$defs"/"$ref" of a nested model are unknown fields.
SchemaRejected(schema) == schema.kind = "nested"
DeclarationRaises(reg) == \E j \in DOMAIN reg : SchemaRejected(reg[j].schema)

\* Lines 93-94: the sanitized parameter schemas, one per value of the registry.
ReadSchemas(reg) == [j \in DOMAIN reg |-> reg[j].schema]
\* Line 95.
ReadNames(reg) == KeysOf(reg)
\* Line 96.
ReadDescriptions(reg) == [j \in DOMAIN reg |-> reg[j].description]

\* Lines 97-106: one declaration per name, its description and schema taken
\* at the same index of the other two lists; a shorter list is an IndexError.
ListsCover(schemas, names, descriptions) ==
  Len(schemas) >= Len(names) /\ Len(descriptions) >= Len(names)

MakeTools(schemas, names, descriptions) ==
  [j \in DOMAIN names |-> [name        |-> names[j],
                           description |-> descriptions[j],
                           parameters  |-> schemas[j]]]

\* Lines 99-103: the declaration of one entry of the registry.
DeclarationOf(entry) ==
  [name |-> entry.key, description |-> entry.description, parameters |-> entry.schema]

\* Lines 93-106.
BuildDeclarations(reg) ==
  MakeTools(ReadSchemas(reg), ReadNames(reg), ReadDescriptions(reg))

\* The exception raised outside the try blocks leaves process_user_query.
DeclarationsFail ==
  /\ pc = "loop"
  /\ DeclarationRaises(tool_registry)
  /\ pc' = "raised"
  /\ UNCHANGED <<tool_registry, i, history, tool_failure_counts, current_tools, response,
                 call_idx, function_response_parts, result, requests, last_dispatch,
                 err_streak, failed_earlier, provider_failed, only_valid_calls, server_vars, function_vars>>

\* The bound on the failure counters: a batch is offered only while the
\* counters of the tools it calls stay within MaxFailures.
WithinBound(calls) ==
  \A j \in DOMAIN calls :
    tool_failure_counts[calls[j].name]
      + Cardinality({m \in DOMAIN calls : calls[m].name = calls[j].name}) <= MaxFailures

\* Finish without the except clause of line 197.
Finish_uncaught(resp) ==
  IF resp.candidates = <<>>
    THEN pc' = "raised" /\ result' = result
    ELSE pc' = "returned" /\ result' = FinalText(resp)

\* Lines 192-202, after the loop is left by break or by exhaustion.
Finish(resp) ==
  /\ pc' = "returned"
  /\ result' = FinalText(resp)

\* ProviderFails retrying the completion request instead of returning.
ProviderFails_retry ==
  /\ pc = "loop"
  /\ requests < max_iterations
  /\ ~DeclarationRaises(tool_registry)
  /\ current_tools' = BuildDeclarations(tool_registry)
  /\ requests' = requests + 1
  /\ pc' = "loop"
  /\ provider_failed' = TRUE
  /\ only_valid_calls' = FALSE
  /\ UNCHANGED <<tool_registry, i, history, tool_failure_counts, response, call_idx,
                 function_response_parts, last_dispatch, err_streak, failed_earlier, result, server_vars, function_vars>>

\* Lines 109-110 and 188-190: the completion request itself raises.
ProviderFails ==
  /\ pc = "loop"
  /\ ~DeclarationRaises(tool_registry)
  /\ current_tools' = BuildDeclarations(tool_registry)
  /\ requests' = requests + 1
  /\ pc' = "returned"
  /\ result' = AbortMessage(<<"provider unavailable">>)
  /\ provider_failed' = TRUE
  /\ only_valid_calls' = FALSE
  /\ UNCHANGED <<tool_registry, i, history, tool_failure_counts, response, call_idx,
                 function_response_parts, last_dispatch, err_streak, failed_earlier, server_vars, function_vars>>

\* Lines 91-131: one completion request and what the loop does with the answer
\* up to the first tool dispatch, for a provider answering from `samples`.
IterateOver(samples) ==
  /\ pc = "loop"
  /\ ~DeclarationRaises(tool_registry)
  /\ current_tools' = BuildDeclarations(tool_registry)
  /\ requests' = requests + 1
  /\ \E resp \in samples :
       /\ response' = resp
       /\ IF resp.candidates = <<>> \/ ~Truthy(resp.candidates[1])
            THEN /\ Finish(resp)
                 /\ only_valid_calls' = FALSE
                 /\ UNCHANGED <<history, call_idx, function_response_parts>>
          ELSE IF FunctionCallsOf(resp.candidates[1]) = <<>>
            THEN /\ Finish(resp)
                 /\ only_valid_calls' = FALSE
                 /\ UNCHANGED <<history, call_idx, function_response_parts>>
          ELSE /\ WithinBound(FunctionCallsOf(resp.candidates[1]))
               /\ history' = Append(history, "model")
               /\ call_idx' = 0
               /\ function_response_parts' = <<>>
               /\ pc' = "dispatch"
               /\ UNCHANGED <<result, only_valid_calls>>
  /\ UNCHANGED <<tool_registry, i, tool_failure_counts, last_dispatch, err_streak, failed_earlier,
                 provider_failed, server_vars, function_vars>>

\* Outcomes with a lookup that falls back to the first registered tool.
Outcomes_fallback(reg, tool_name, tool_args) ==
  {[reg |-> o.reg, out |-> o.out, invoked |-> TRUE] :
     o \in Invoke(reg, IF tool_name \in Names(reg) THEN Lookup(reg, tool_name).function
                                                   ELSE reg[1].function, tool_args)}

\* Lines 145-149: lookup and invocation of one call; not finding the tool
\* raises ValueError inside the inner try.
Outcomes(reg, tool_name, tool_args) ==
  IF tool_name \notin Names(reg)
    THEN {[reg |-> reg, out |-> Raised(NotFoundError(tool_name)), invoked |-> FALSE]}
    ELSE {[reg |-> o.reg, out |-> o.out, invoked |-> TRUE] :
            o \in Invoke(reg, Lookup(reg, tool_name).function, tool_args)}

\* A call the registry can serve: the tool is registered and the argument
\* names are the parameter names of its handler.
ValidCall(reg, tool_name, tool_args) ==
  /\ tool_name \in Names(reg)
  /\ Keys(tool_args) = ParamsOf(Lookup(reg, tool_name).function)

\* Classify escalating one failure later (count > 3).
Classify_late(counts, tool_name, out) ==
  IF IsRaised(out)
    THEN [text |-> CriticalMessage(out.val), counts |-> counts, kind |-> "raised"]
  ELSE IF is_error(out.val)
    THEN LET c == [counts EXCEPT ![tool_name] = @ + 1]
         IN  [text   |-> IF c[tool_name] > 3 THEN EscalatedMessage(tool_name)
                                             ELSE RetryMessage(out.val),
              counts |-> c, kind |-> "error"]
  ELSE [text |-> out.val, counts |-> [counts EXCEPT ![tool_name] = 0], kind |-> "success"]

\* Classify without the reset on success.
Classify_noreset(counts, tool_name, out) ==
  IF IsRaised(out)
    THEN [text |-> CriticalMessage(out.val), counts |-> counts, kind |-> "raised"]
  ELSE IF is_error(out.val)
    THEN LET c == [counts EXCEPT ![tool_name] = @ + 1]
         IN  [text   |-> IF c[tool_name] > 2 THEN EscalatedMessage(tool_name)
                                             ELSE RetryMessage(out.val),
              counts |-> c, kind |-> "error"]
  ELSE [text |-> out.val, counts |-> counts, kind |-> "success"]

\* Classify with an except branch that leaves tool_result_str empty.
Classify_swallow(counts, tool_name, out) ==
  IF IsRaised(out)
    THEN [text |-> <<>>, counts |-> counts, kind |-> "raised"]
  ELSE IF is_error(out.val)
    THEN LET c == [counts EXCEPT ![tool_name] = @ + 1]
         IN  [text   |-> IF c[tool_name] > 2 THEN EscalatedMessage(tool_name)
                                             ELSE RetryMessage(out.val),
              counts |-> c, kind |-> "error"]
  ELSE [text |-> out.val, counts |-> [counts EXCEPT ![tool_name] = 0], kind |-> "success"]

\* Classify with a success that clears the counters of all tools.
Classify_global(counts, tool_name, out) ==
  IF IsRaised(out)
    THEN [text |-> CriticalMessage(out.val), counts |-> counts, kind |-> "raised"]
  ELSE IF is_error(out.val)
    THEN LET c == [counts EXCEPT ![tool_name] = @ + 1]
         IN  [text   |-> IF c[tool_name] > 2 THEN EscalatedMessage(tool_name)
                                             ELSE RetryMessage(out.val),
              counts |-> c, kind |-> "error"]
  ELSE [text |-> out.val, counts |-> [t \in DOMAIN counts |-> 0], kind |-> "success"]

\* Lines 150-179: the text reported for one outcome and the failure counters
\* afterwards.
Classify(counts, tool_name, out) ==
  IF IsRaised(out)
    THEN [text |-> CriticalMessage(out.val), counts |-> counts, kind |-> "raised"]
  ELSE IF is_error(out.val)
    THEN LET c == [counts EXCEPT ![tool_name] = @ + 1]
         IN  [text   |-> IF c[tool_name] > 2 THEN EscalatedMessage(tool_name)
                                             ELSE RetryMessage(out.val),
              counts |-> c, kind |-> "error"]
  ELSE [text |-> out.val, counts |-> [counts EXCEPT ![tool_name] = 0], kind |-> "success"]

\* Lines 134-190 for one function call of the batch, and lines 185-202 when it
\* is the last one of the batch.
DispatchCall ==
  /\ pc = "dispatch"
  /\ LET function_calls == FunctionCallsOf(response.candidates[1])
         function_call  == function_calls[call_idx + 1]
         tool_name      == function_call.name
         tool_args      == _convert_proto_to_dict(function_call.args)
     IN  IF IsRaised(tool_args)
           THEN /\ pc' = "returned"
                /\ result' = AbortMessage(tool_args.val)
                /\ last_dispatch' = Dispatched(tool_name, "convfail", <<>>, <<>>, FALSE)
                /\ only_valid_calls' = FALSE
                /\ UNCHANGED <<tool_registry, i, history, tool_failure_counts, call_idx,
                               function_response_parts, err_streak>>
           ELSE \E o \in Outcomes(tool_registry, tool_name, tool_args) :
                  LET c == Classify(tool_failure_counts, tool_name, o.out)
                      kind == IF c.kind = "raised" /\ ~o.invoked THEN "notfound" ELSE c.kind
                  IN  /\ tool_registry' = o.reg
                      /\ tool_failure_counts' = c.counts
                      /\ function_response_parts' =
                           Append(function_response_parts, FunctionResponse(tool_name, c.text))
                      /\ last_dispatch' =
                           Dispatched(tool_name, kind, o.out.val, c.text, o.invoked)
                      /\ only_valid_calls' =
                           (only_valid_calls /\ ValidCall(tool_registry, tool_name, tool_args))
                      /\ err_streak' =
                           CASE kind = "error"   -> [err_streak EXCEPT ![tool_name] = @ + 1]
                             [] kind = "success" -> [err_streak EXCEPT ![tool_name] = 0]
                             [] OTHER            -> err_streak
                      /\ IF call_idx + 1 < Len(function_calls)
                           THEN /\ call_idx' = call_idx + 1
                                /\ pc' = "dispatch"
                                /\ UNCHANGED <<i, history, result>>
                           ELSE /\ call_idx' = call_idx + 1
                                /\ history' = Append(history, "user")
                                /\ i' = i + 1
                                /\ IF i + 1 < max_iterations
                                     THEN pc' = "loop" /\ UNCHANGED result
                                     ELSE Finish(response)
  /\ failed_earlier' = IF last_dispatch = NoDispatch THEN failed_earlier ELSE {}
  /\ UNCHANGED <<current_tools, response, requests, provider_failed, server_vars, function_vars>>

Iterate == IterateOver(ResponseSamples)

Next == NewQuery \/ DeclarationsFail \/ ProviderFails \/ Iterate \/ DispatchCall

Spec == Init /\ [][Next]_vars

\* The same loop with a provider answering from DispatchSamples.
IterateDispatch == IterateOver(DispatchSamples)

DispatchNext ==
  NewQuery \/ DeclarationsFail \/ ProviderFails \/ IterateDispatch \/ DispatchCall

DispatchSpec == Init /\ [][DispatchNext]_vars

---------------------------------------------------------------------------
(* The requests served beside a conversation *)

conversation_vars ==
  <<pc, i, history, tool_failure_counts, response, call_idx, function_response_parts,
    result, requests, last_dispatch, err_streak, failed_earlier, provider_failed, only_valid_calls>>

\* EventLoopFree of a server whose handlers run on several threads.
EventLoopFree_threads == TRUE

\* Each worker runs its requests on one event loop: a coroutine is left only
\* at an await; process_user_query has none and mcp_endpoint has one, for
\* the body of the request.
EventLoopFree ==
  /\ pc \in {"idle", "returned", "raised"}
  /\ listing_pc \in {"idle", "raised"}

\* main.py, lines 60-83: a request to /mcp arrives; the key check answers it
\* with 401 or the handler awaits the body.
McpAccept ==
  /\ EventLoopFree
  /\ mcp_pc = "idle"
  /\ \E body \in McpBodies :
       /\ mcp_request' = body
       /\ mcp_invoked' = FALSE
       /\ IF body.authorized
            THEN mcp_pc' = "line 83" /\ mcp_response' = NoMcpResponse
            ELSE mcp_pc' = "idle" /\ mcp_response' = McpUnauthorized
  /\ UNCHANGED <<tool_registry, conversation_vars, current_tools, listing_pc,
                 sanitized_schemas, tool_names, tool_descriptions, function_vars>>

\* main.py, lines 83-158: the body has arrived and the request is served.
McpHandle ==
  /\ EventLoopFree
  /\ mcp_pc = "line 83"
  /\ \E o \in Serve(tool_registry, mcp_request) :
       /\ mcp_response' = o.answer
       /\ mcp_invoked' = o.invoked
       /\ tool_registry' = o.reg
  /\ mcp_pc' = "idle"
  /\ UNCHANGED <<mcp_request, conversation_vars, current_tools, listing_pc,
                 sanitized_schemas, tool_names, tool_descriptions, function_vars>>

\* Lines 93-106 of an iteration, cut at each read of the registry.
ListSchemas ==
  /\ listing_pc \in {"idle", "raised"}
  /\ sanitized_schemas' = ReadSchemas(tool_registry)
  /\ listing_pc' = "line 95"
  /\ UNCHANGED <<tool_registry, conversation_vars, current_tools, tool_names,
                 tool_descriptions, mcp_pc, mcp_request, mcp_response, mcp_invoked, function_vars>>

ListNames ==
  /\ listing_pc = "line 95"
  /\ tool_names' = ReadNames(tool_registry)
  /\ listing_pc' = "line 96"
  /\ UNCHANGED <<tool_registry, conversation_vars, current_tools, sanitized_schemas,
                 tool_descriptions, mcp_pc, mcp_request, mcp_response, mcp_invoked, function_vars>>

ListDescriptions ==
  /\ listing_pc = "line 96"
  /\ tool_descriptions' = ReadDescriptions(tool_registry)
  /\ IF /\ ListsCover(sanitized_schemas, tool_names, tool_descriptions')
        /\ \A j \in DOMAIN tool_names : ~SchemaRejected(sanitized_schemas[j])
       THEN /\ current_tools' = MakeTools(sanitized_schemas, tool_names, tool_descriptions')
            /\ listing_pc' = "idle"
       ELSE /\ listing_pc' = "raised"
            /\ UNCHANGED current_tools
  /\ UNCHANGED <<tool_registry, conversation_vars, sanitized_schemas, tool_names,
                 mcp_pc, mcp_request, mcp_response, mcp_invoked, function_vars>>

ServerNext == McpAccept \/ McpHandle \/ ListSchemas \/ ListNames \/ ListDescriptions

ServerSpec == Init /\ [][ServerNext]_vars

---------------------------------------------------------------------------
(* The two pure functions of the orchestrator, applied to sample inputs *)

\* Bound of the model: how often the sanitizer is run on one schema.
MaxPasses == 2

program_vars ==
  <<tool_registry, pc, i, history, tool_failure_counts, current_tools, response,
    call_idx, function_response_parts, result, requests, last_dispatch, err_streak, failed_earlier,
    provider_failed, only_valid_calls, server_vars>>

SanitizeInit ==
  /\ ProcessInit
  /\ schema_copy \in SchemaSamples
  /\ passes = 0
  /\ proto_obj = NNone
  /\ converted = NotConverted
  /\ function_code = ""
  /\ synthesized = <<>>

\* sanitized = _sanitize_schema(s) on the dict left by the previous call.
Sanitize ==
  /\ passes < MaxPasses
  /\ ~IsRaised(schema_copy)
  /\ schema_copy' = _sanitize_schema(schema_copy)
  /\ passes' = passes + 1
  /\ UNCHANGED <<program_vars, proto_obj, converted, function_code, synthesized>>

SanitizeSpec == SanitizeInit /\ [][Sanitize]_vars

StructValue(kids) == PValue("struct_value", "", <<KV("", PStruct(kids))>>)
ListValueOf(values) == PValue("list_value", "", <<KV("", PList(Items(values)))>>)

\* Members of a protobuf Struct, nested up to two levels.
ValueLeaves == {PString("a"), PNull}
ValuesDepth1 ==
  ValueLeaves \cup {StructValue(<<KV("k", v)>>) : v \in ValueLeaves}
              \cup {ListValueOf(<<v, w>>) : v \in ValueLeaves, w \in ValueLeaves}
ValuesDepth2 ==
  ValuesDepth1 \cup {StructValue(<<KV("k", v)>>) : v \in ValuesDepth1}
               \cup {ListValueOf(<<v>>) : v \in ValuesDepth1}

\* Members of the MapComposite that function_call.args is, as its items()
\* hands them out: Python scalars, None, MapComposite and RepeatedComposite.
CompositeLeaves == {Native("a"), NNone}
CompositesDepth1 ==
  CompositeLeaves \cup {PMapping(<<KV("k", v)>>) : v \in CompositeLeaves}
                  \cup {PRepeated(Items(<<v, w>>)) : v \in CompositeLeaves, w \in CompositeLeaves}
CompositesDepth2 ==
  CompositesDepth1 \cup {PMapping(<<KV("k", v)>>) : v \in CompositesDepth1}
                   \cup {PRepeated(Items(<<v>>)) : v \in CompositesDepth1}

\* Values with no kind set, alone and inside a Struct or a list, and objects
\* of types the function does not know.
UnsetSamples ==
  { PUnset,
    PStruct(<<KV("arg", PUnset)>>),
    PMapping(<<KV("arg", StructValue(<<KV("k", PUnset)>>))>>),
    PMapping(<<KV("arg", ListValueOf(<<PString("a"), PUnset>>))>>) }
UnknownSamples == {Native("a"), NNone, PRepeated(Items(<<Native("a")>>))}

ProtoSamples ==
  {PStruct(<<KV("arg", v)>>) : v \in ValuesDepth2}
    \cup {PMapping(<<KV("arg", v)>>) : v \in ValuesDepth2 \cup CompositesDepth2}
    \cup UnsetSamples \cup UnknownSamples

ConvertInit ==
  /\ ProcessInit
  /\ schema_copy = NDict(<<>>)
  /\ passes = 0
  /\ proto_obj \in ProtoSamples
  /\ converted = NotConverted
  /\ function_code = ""
  /\ synthesized = <<>>

\* tool_args = _convert_proto_to_dict(raw_args)
Convert ==
  /\ converted = NotConverted
  /\ converted' = _convert_proto_to_dict(proto_obj)
  /\ UNCHANGED <<program_vars, schema_copy, passes, proto_obj, function_code, synthesized>>

ConvertSpec == ConvertInit /\ [][Convert]_vars

\* create_python_tool_for_salesforce(function_code), called again and again
\* in one process on the sample sources.
AllCodeSamples == CodeSamples \cup McpCodeSamples \cup NamedCodeSamples

SynthesizeCode ==
  \E code \in AllCodeSamples :
    LET r == Synthesize(tool_registry, code)
    IN  /\ function_code' = code.id
        /\ synthesized' = r.out
        /\ tool_registry' = r.reg
        /\ UNCHANGED <<conversation_vars, current_tools, server_vars,
                       schema_copy, passes, proto_obj, converted>>

SynthesizeSpec == Init /\ [][SynthesizeCode]_vars

---------------------------------------------------------------------------
(* Properties *)

SOQL   == "execute_soql_query"
CREATE == "create_python_tool_for_salesforce"

\* The function call the dispatch loop is about to handle (pc = "dispatch").
CurrentCall == FunctionCallsOf(response.candidates[1])[call_idx + 1]
CurrentArgs == _convert_proto_to_dict(CurrentCall.args)

IsAbort(text) ==
  text /= <<>> /\ text[1] = "An error occurred while processing your request: "

\* The last response carried content without any tool-call request.
AnswerWithoutCalls(resp) ==
  /\ resp.candidates /= <<>>
  /\ Truthy(resp.candidates[1])
  /\ FunctionCallsOf(resp.candidates[1]) = <<>>

\* C1: process_user_query never lets an exception escape, whatever the
\* provider answers, the tools do and the registry holds.
C1_NoExceptionEscapes == pc /= "raised"

\* C2: at most 20 completion requests are made, and when every answer of the
\* model requested valid tool calls the call ends by returning, after exactly
\* 20 completion requests, a non-empty text that is the text of the last
\* response or the generic completion message.
C2_TwentyIterations ==
  /\ requests <= max_iterations
  /\ (pc \in {"returned", "raised"} /\ only_valid_calls) =>
       /\ pc = "returned"
       /\ requests = max_iterations
       /\ result /= <<>>
       /\ result \in {GenericMessage, JoinLines(TextsOf(response.candidates[1]))}

\* C3: the k-th error-classified result of a tool since its last success is
\* reported with the handler's own error for k = 1, 2 and with the escalated
\* message for k >= 3.
C3_EscalationFromThird ==
  last_dispatch.kind = "error" =>
    LET k == err_streak[last_dispatch.name]
    IN  /\ k >= 1
        /\ k <= 2 => last_dispatch.text = RetryMessage(last_dispatch.raw)
        /\ k >= 3 => last_dispatch.text = EscalatedMessage(last_dispatch.name)

C3_Witness ==
  /\ last_dispatch.kind = "error"
  /\ err_streak[last_dispatch.name] = 4
  /\ last_dispatch.text = EscalatedMessage(last_dispatch.name)

\* C4: a success of a tool sets its failure counter to 0 whatever the counter
\* was, and a failure of a tool whose counter is 0 is reported as a first
\* failure (handler's error, counter 1).
C4_SuccessResets ==
  [][pc = "dispatch" =>
       /\ last_dispatch'.kind = "success" =>
            tool_failure_counts'[last_dispatch'.name] = 0
       /\ (last_dispatch'.kind = "error" /\ tool_failure_counts[last_dispatch'.name] = 0) =>
            /\ last_dispatch'.text = RetryMessage(last_dispatch'.raw)
            /\ tool_failure_counts'[last_dispatch'.name] = 1]_vars

\* A batch in which the third failure in a row of a tool (escalated) is
\* followed by a success of that tool, after which its counter is 0.
C4_Witness ==
  /\ Len(function_response_parts) = 2
  /\ function_response_parts[1] = FunctionResponse(SOQL, EscalatedMessage(SOQL))
  /\ function_response_parts[2] = FunctionResponse(SOQL, SoqlNoRecords)
  /\ last_dispatch.kind = "success"
  /\ tool_failure_counts[SOQL] = 0

\* C5: a call of a name that is not registered is answered with a "not found"
\* result, invokes no handler, and leaves the registry and the failure
\* counters of all other tools unchanged.
C5_UnknownTool ==
  [][(/\ pc = "dispatch"
      /\ CurrentCall.name \notin Names(tool_registry)
      /\ ~IsRaised(CurrentArgs)) =>
       /\ function_response_parts' =
            Append(function_response_parts,
                   FunctionResponse(CurrentCall.name, last_dispatch'.text))
       /\ HasWord(last_dispatch'.text, "not found")
       /\ ~last_dispatch'.invoked
       /\ tool_registry' = tool_registry
       /\ \A t \in NameUniverse \ {CurrentCall.name} :
            tool_failure_counts'[t] = tool_failure_counts[t]]_vars

C5_Witness ==
  /\ last_dispatch.kind = "notfound"
  /\ last_dispatch.name = "X"
  /\ function_response_parts /= <<>>
  /\ function_response_parts[Len(function_response_parts)].name = "X"
  /\ HasWord(function_response_parts[Len(function_response_parts)].response, "not found")

\* C6: a call of a name that is not registered increments the failure
\* counter of that name by one.
C6_MissingToolCounts ==
  [][(pc = "dispatch" /\ last_dispatch'.kind = "notfound") =>
       tool_failure_counts'[last_dispatch'.name]
         = tool_failure_counts[last_dispatch'.name] + 1]_vars

\* C7: the abort answer is returned only when a completion request failed.
C7_OnlyProviderAborts ==
  (pc = "returned" /\ IsAbort(result)) => provider_failed

\* C8: a failing completion request makes the call return the error-tagged
\* text in that very step, and nothing follows it in that call: no completion
\* request and no tool dispatch.
C8_ProviderFailureIsFinal ==
  [][/\ (provider_failed' /\ ~provider_failed) =>
          (pc' = "returned" /\ IsAbort(result'))
     /\ provider_failed =>
          \/ (pc' = "loop" /\ requests' = 0 /\ ~provider_failed')
          \/ (requests' = requests /\ pc /= "dispatch" /\ pc' = pc)]_vars

C8_Witness ==
  /\ provider_failed
  /\ pc = "returned"
  /\ IsAbort(result)
  /\ requests >= 2

\* C9 as stated: a response without tool-call request makes the call return
\* exactly the text of that response.
C9_TextVerbatim ==
  (pc = "returned" /\ ~provider_failed /\ AnswerWithoutCalls(response)) =>
     result = JoinLines(TextsOf(response.candidates[1]))

NoNewlines(text) == SelectSeq(text, LAMBDA x : x /= "\n")

\* C9 as amended: a response without tool-call request makes the call return,
\* in the step that receives it, the non-empty text parts of the response
\* joined by newlines, or the generic completion message when there is none;
\* no tool is dispatched and no further completion request is made.
C9_TextOrGeneric ==
  [][/\ (/\ pc = "loop"
         /\ requests' = requests + 1
         /\ ~provider_failed'
         /\ AnswerWithoutCalls(response')) =>
          /\ pc' = "returned"
          /\ LET texts == TextsOf(response'.candidates[1])
             IN  IF texts = <<>> THEN result' = GenericMessage
                 ELSE /\ NoNewlines(result') = texts
                      /\ Len(result') = 2 * Len(texts) - 1
          /\ UNCHANGED <<last_dispatch, function_response_parts, tool_registry,
                         tool_failure_counts, history>>
     /\ pc = "returned" => (pc' = "loop" /\ requests' = 0)]_vars

C9_Witness ==
  /\ pc = "returned"
  /\ response = Response(<<Content("model", <<TextPart("First."), TextPart("Second.")>>)>>)
  /\ result = <<"First.", "\n", "Second.">>
  /\ last_dispatch = NoDispatch

\* C10: synthesis of source defining exactly one function (with a signature
\* registration accepts) registers it under its name; synthesis of source
\* defining zero or several functions reports a synthesis error and leaves
\* the registry unchanged.
C10_ExactlyOneFunction ==
  [][(/\ pc = "dispatch"
      /\ CurrentCall.name = CREATE
      /\ ~IsRaised(CurrentArgs)
      /\ ValidCall(tool_registry, CREATE, CurrentArgs)) =>
       LET code == CodeOf(Get(CurrentArgs, "function_code").val)
           fs   == FunctionsOf(code)
       IN  /\ (/\ Cardinality(fs) = 1
               /\ \A j \in fs : code.bindings[j].val.sig /= "untyped") =>
                 /\ \A j \in fs : code.bindings[j].key \in Names(tool_registry')
                 /\ ~is_error(last_dispatch'.raw)
           /\ Cardinality(fs) /= 1 =>
                 /\ tool_registry' = tool_registry
                 /\ is_error(last_dispatch'.raw)]_vars

\* The synthesizer is about to be invoked with source it rejects.
SynthesisFails ==
  /\ pc = "dispatch"
  /\ CurrentCall.name = CREATE
  /\ ~IsRaised(CurrentArgs)
  /\ ValidCall(tool_registry, CREATE, CurrentArgs)
  /\ is_error(Synthesize(tool_registry, CodeOf(Get(CurrentArgs, "function_code").val)).out)

SynthesisText == Synthesize(tool_registry, CodeOf(Get(CurrentArgs, "function_code").val)).out

\* The text is one of the two failure messages of the synthesizer.
ReturnsFailure(out) == out[1] \in {"Syntax ", "Failed"}

\* C11 as stated: a failing synthesis is not raised, and the text of the
\* synthesis error is part of the result the model receives for that call,
\* at every such failure.
C11_SynthesisTextReported ==
  [][SynthesisFails =>
       /\ pc' /= "raised"
       /\ last_dispatch'.kind = "error"
       /\ Contains(last_dispatch'.text, SynthesisText)]_vars

\* C11 as amended: a failing synthesis is not raised and is answered with one
\* result named after the synthesizer; that result quotes the text of the
\* synthesis error at the first and the second failure in a row, and is the
\* escalated message, without that text, from the third on.
C11_SynthesisTextUntilEscalation ==
  [][SynthesisFails =>
       /\ pc' /= "raised"
       /\ last_dispatch'.kind = "error"
       /\ function_response_parts' =
            Append(function_response_parts, FunctionResponse(CREATE, last_dispatch'.text))
       /\ tool_failure_counts[CREATE] < 2 => Contains(last_dispatch'.text, SynthesisText)
       /\ tool_failure_counts[CREATE] >= 2 =>
            /\ last_dispatch'.text = EscalatedMessage(CREATE)
            /\ ~Contains(last_dispatch'.text, SynthesisText)]_vars

\* The second failing synthesis in a row, answered with the synthesis error
\* quoted in the retry message.
C11_Witness ==
  /\ last_dispatch.name = CREATE
  /\ last_dispatch.kind = "error"
  /\ err_streak[CREATE] = 2
  /\ tool_failure_counts[CREATE] = 2
  /\ last_dispatch.raw = SynthSyntaxError(CodeOf("syntax"))
  /\ Contains(last_dispatch.text, last_dispatch.raw)

\* C16: the calls of a batch are dispatched in the order of the response,
\* the j-th dispatch adding the j-th result, named after the j-th call; the
\* batch appended to history has one result per call, in that order.
C16_BatchInOrder ==
  [][(pc = "dispatch" /\ ~IsRaised(CurrentArgs)) =>
       LET function_calls == FunctionCallsOf(response.candidates[1])
       IN  /\ Len(function_response_parts) = call_idx
           /\ last_dispatch'.name = function_calls[call_idx + 1].name
           /\ Len(function_response_parts') = call_idx + 1
           /\ SubSeq(function_response_parts', 1, call_idx) = function_response_parts
           /\ function_response_parts'[call_idx + 1].name = function_calls[call_idx + 1].name
           /\ function_response_parts'[call_idx + 1].response = last_dispatch'.text
           /\ IF call_idx + 1 < Len(function_calls)
                THEN pc' = "dispatch" /\ history' = history
                ELSE /\ history' = Append(history, "user")
                     /\ Len(function_response_parts') = Len(function_calls)
                     /\ \A j \in DOMAIN function_calls :
                          function_response_parts'[j].name = function_calls[j].name]_vars

\* The batch of the calls X and execute_soql_query, appended to history.
C16_Witness ==
  /\ pc = "loop"
  /\ response = CallResponse(<<cX, cSoql>>)
  /\ call_idx = 2
  /\ history[Len(history)] = "user"
  /\ Len(function_response_parts) = 2
  /\ function_response_parts[1].name = "X"
  /\ function_response_parts[2].name = SOQL
  /\ last_dispatch.name = SOQL

\* C19: what a conversation has registered stays registered when it ends
\* and when the next one starts; every conversation, at its first step,
\* builds declarations that offer every registered tool, and a call of a
\* registered tool invokes its handler.
C19_SynthesizedToolsPersist ==
  [][/\ Names(tool_registry) \subseteq Names(tool_registry')
     /\ (pc = "loop" /\ requests = 0) =>
          /\ pc' /= "raised"
          /\ Names(tool_registry) \subseteq {current_tools'[j].name : j \in DOMAIN current_tools'}
     /\ (/\ pc = "dispatch"
         /\ ~IsRaised(CurrentArgs)
         /\ CurrentCall.name \in Names(tool_registry)) => last_dispatch'.invoked]_vars

\* C20: every call of process_user_query starts with all failure counters at
\* 0, and the counters it escalates on are the failures of its own
\* conversation: whatever the counters of earlier calls were when they ended,
\* a tool's failure is escalated exactly when it is the third or a later one
\* in a row within the current call.
C20_CountersPerConversation ==
  [][/\ (pc \in {"idle", "returned", "raised"} /\ pc' = "loop") =>
          \A t \in NameUniverse : tool_failure_counts'[t] = 0
     /\ \A t \in NameUniverse : tool_failure_counts'[t] = err_streak'[t]
     /\ (pc = "dispatch" /\ last_dispatch'.kind = "error") =>
          (last_dispatch'.text = EscalatedMessage(last_dispatch'.name)
             <=> err_streak'[last_dispatch'.name] >= 3)]_vars

\* A tool whose counter had reached the escalation when an earlier call
\* ended fails for the first time in a later call: handler's own error,
\* counter 1.
C20_Witness ==
  /\ last_dispatch.kind = "error"
  /\ last_dispatch.name \in failed_earlier
  /\ tool_failure_counts[last_dispatch.name] = 1
  /\ last_dispatch.text = RetryMessage(last_dispatch.raw)

\* The completion request of this step was answered without a candidate, or
\* with a first candidate that has no content.
NoContentAnswer ==
  /\ pc = "loop"
  /\ requests' = requests + 1
  /\ ~provider_failed'
  /\ (response'.candidates = <<>> \/ ~Truthy(response'.candidates[1]))

\* C23: an answer without a candidate, or whose first candidate has no
\* content, ends the call at once: nothing is dispatched, nothing is appended
\* to history, and the generic completion message is returned.
C23_NoContentFallback ==
  [][NoContentAnswer =>
       /\ pc' = "returned"
       /\ result' = GenericMessage
       /\ UNCHANGED <<history, last_dispatch, tool_registry, tool_failure_counts, call_idx,
                      function_response_parts>>]_vars

\* The second answer of a conversation, after a dispatched batch, carries no
\* candidate.
C23_Witness ==
  /\ pc = "returned"
  /\ requests = 2
  /\ ~provider_failed
  /\ last_dispatch /= NoDispatch
  /\ response.candidates = <<>>
  /\ result = GenericMessage

\* The names of the tools a batch has just registered, as far as its last
\* call shows: the loop is about to start the next iteration.
JustRegistered ==
  IF pc = "loop" /\ requests >= 1 /\ last_dispatch.name = CREATE /\ last_dispatch.invoked
    THEN {t \in NameUniverse : last_dispatch.raw = SynthSuccess(t)}
    ELSE {}

\* C24: a tool registered by the batch of iteration k is declared to the
\* model at iteration k+1 of the same conversation, with the name,
\* description and schema the registry holds for it.
C24_NextIterationOffers ==
  [][\A t \in JustRegistered :
       /\ pc' /= "raised"
       /\ \E j \in DOMAIN current_tools' :
            current_tools'[j] = DeclarationOf(Lookup(tool_registry, t))]_vars

---------------------------------------------------------------------------
(* Properties of _sanitize_schema on unions *)

\* The parameters p and q of a tool schema, where it has them.
ParamNames(schema) ==
  {n \in {"p", "q"} : HasKey(DictGet(schema, "properties"), n)}
ParamField(schema, n) == DictGet(DictGet(schema, "properties"), n)

IsNullBranch(b) == DictGet(b, "type") = Str("null")
Branches(f) == DictGet(f, "anyOf").kids

\* The field is a union with a null branch and a branch that is not null.
NullableUnion(f) ==
  /\ HasKey(f, "anyOf")
  /\ \E j \in DOMAIN Branches(f) : IsNullBranch(Branches(f)[j].v)
  /\ \E j \in DOMAIN Branches(f) : ~IsNullBranch(Branches(f)[j].v)

\* Its first branch that is not null.
NonNullBranch(f) ==
  LET js == {j \in DOMAIN Branches(f) : ~IsNullBranch(Branches(f)[j].v)}
  IN  Branches(f)[CHOOSE j \in js : \A m \in js : j <= m].v

\* C25: a run of _sanitize_schema leaves every nullable union without its
\* anyOf and with the type of its non-null branch (in upper case), the keys
\* the field already had being kept, wherever the null branch stands.
C25_NullableCollapsed ==
  [][(passes = 0 /\ passes' = 1) =>
       \A n \in ParamNames(schema_copy) :
         LET f == ParamField(schema_copy, n)
             g == ParamField(schema_copy', n)
         IN  NullableUnion(f) =>
               /\ ~IsRaised(schema_copy')
               /\ ~HasKey(g, "anyOf")
               /\ DictGet(g, "type") = Str(Upper(DictGet(NonNullBranch(f), "type").val))
               /\ DictGet(g, "description") = DictGet(f, "description")]_vars

\* The field is a union without any branch that is not null.
NullOnlyUnion(f) ==
  /\ HasKey(f, "anyOf")
  /\ \A j \in DOMAIN Branches(f) : IsNullBranch(Branches(f)[j].v)

KeySet(d) == {d.kids[j].k : j \in DOMAIN d.kids}

\* C26: a run of _sanitize_schema does not fail on a union that has no
\* non-null branch and leaves that field as it was: the union is still
\* there and no key has been added to the field (the keys the sanitizer
\* removes everywhere apart).
C26_NullOnlyUntouched ==
  [][(passes = 0 /\ passes' = 1) =>
       \A n \in ParamNames(schema_copy) :
         LET f == ParamField(schema_copy, n)
             g == ParamField(schema_copy', n)
         IN  NullOnlyUnion(f) =>
               /\ ~IsRaised(schema_copy')
               /\ HasKey(g, "anyOf")
               /\ KeySet(g) = KeySet(f) \ keys_to_pop]_vars

\* The types _convert_proto_to_dict tests for.
Recognized(obj) == obj.t \in {"Struct", "ListValue", "Value", "Mapping"}

\* C27: _convert_proto_to_dict returns a result for every input, a value
\* with no kind set included, and returns an object of a type it does not
\* know as it is.
C27_ConvertNeverFails ==
  converted /= NotConverted =>
    /\ ~IsRaised(converted)
    /\ ~Recognized(proto_obj) => converted = proto_obj

---------------------------------------------------------------------------
(* Properties of the conversation history *)

\* Roles alternate, starting with the user turn of the query.
Alternates(h) ==
  \A j \in DOMAIN h : h[j] = IF j % 2 = 1 THEN "user" ELSE "model"

\* C28: the history of a call starts as the single user turn, only grows,
\* and alternates user, model, user, ...; between iterations and when the
\* call has ended its length is 1 plus twice the number of dispatched batches
\* (the loop variable i counts them), and while a batch is being dispatched
\* the model turn that requested it is the one turn more.
C28_HistoryShape ==
  [][/\ pc /= "idle" =>
          /\ Alternates(history)
          /\ Len(history) = IF pc = "dispatch" THEN 2 * i + 2 ELSE 2 * i + 1
     /\ IF pc' = "loop" /\ pc /= "loop" /\ pc /= "dispatch"
          THEN history' = <<"user">>
          ELSE IsPrefix(history, history')]_vars

---------------------------------------------------------------------------
(* Properties of the synthesizer seen from the loop *)

\* The call about to be dispatched is a well-formed call of the synthesizer.
SynthesisCall ==
  /\ pc = "dispatch"
  /\ CurrentCall.name = CREATE
  /\ ~IsRaised(CurrentArgs)
  /\ ValidCall(tool_registry, CREATE, CurrentArgs)

\* C29: a call of the synthesizer that returns one of its failure messages
\* leaves tool_registry exactly as it was.
C29_FailureLeavesRegistry ==
  [][(function_code' /= "" /\ ReturnsFailure(synthesized')) =>
       tool_registry' = tool_registry]_vars

\* C30: a call of the synthesizer that registers a tool is a success for
\* the loop, whatever the tool is called: the model receives the success
\* message as it is and the failure counter of the synthesizer is 0.
C30_RegistrationIsSuccess ==
  [][(SynthesisCall /\ ~ReturnsFailure(SynthesisText)) =>
       /\ last_dispatch'.text = SynthesisText
       /\ function_response_parts' =
            Append(function_response_parts, FunctionResponse(CREATE, SynthesisText))
       /\ tool_failure_counts'[CREATE] = 0]_vars

---------------------------------------------------------------------------
(* Properties of the dispatch of raising handlers *)

\* The call about to be dispatched reaches a registered handler that raises.
HandlerRaises ==
  /\ pc = "dispatch"
  /\ ~IsRaised(CurrentArgs)
  /\ \A o \in Outcomes(tool_registry, CurrentCall.name, CurrentArgs) :
       o.invoked /\ IsRaised(o.out)

C22_RaiseCounts ==
  [][HandlerRaises =>
       /\ tool_failure_counts'[CurrentCall.name] = tool_failure_counts[CurrentCall.name] + 1
       /\ tool_failure_counts[CurrentCall.name] >= 2 =>
            last_dispatch'.text = EscalatedMessage(CurrentCall.name)]_vars

---------------------------------------------------------------------------
(* Properties of the registry and of the /mcp endpoint *)


NamesOf(listing) == [j \in DOMAIN listing |-> listing[j].name]

\* The step serves the request that mcp_endpoint has received.
McpStep == mcp_pc = "line 83" /\ mcp_pc' = "idle"

\* The step ends the listing of lines 93-106 with the declarations built.
ListingDone == listing_pc = "line 96" /\ listing_pc' = "idle"

CreateBody(id) ==
  CallBody("7", CREATE, <<KV("function_code", Native(id))>>)

\* C12: the keys of the registry start with the static tools in import order
\* and change only by a new name put last, so they stand in the order of
\* their first registration, whatever is registered again; the declarations
\* of an iteration and the answer of tools/list name the tools in that order,
\* hence identically as long as nothing is registered.
C12_RegistrationOrder ==
  [][/\ IsPrefix([j \in DOMAIN StaticTools |-> StaticTools[j].name], KeysOf(tool_registry))
     /\ (\/ KeysOf(tool_registry') = KeysOf(tool_registry)
         \/ /\ Len(tool_registry') = Len(tool_registry) + 1
            /\ IsPrefix(KeysOf(tool_registry), KeysOf(tool_registry'))
            /\ tool_registry'[Len(tool_registry')].key \notin Names(tool_registry))
     /\ (ListingDone => NamesOf(current_tools') = KeysOf(tool_registry'))
     /\ ((McpStep /\ mcp_request'.method = "tools/list" /\ mcp_response'.kind = "result") =>
           NamesOf(mcp_response'.result) = KeysOf(tool_registry'))]_vars

\* f is registered again (new_f) while g, registered after it, stays behind
\* it; the declarations listed afterwards keep that order.
C12_Witness ==
  /\ mcp_request = CreateBody("new_f")
  /\ mcp_response.kind = "result"
  /\ KeysOf(tool_registry) = <<SOQL, "execute_universal_api_request", CREATE, "f", "g">>
  /\ listing_pc = "idle"
  /\ NamesOf(current_tools) = KeysOf(tool_registry)
  /\ current_tools[4].description = parse_docstring(f_two)

DescriptorOf(func) ==
  [key |-> func.name, name |-> func.name, description |-> parse_docstring(func),
   schema |-> create_model_from_func(func), function |-> func]

\* The request being served makes the synthesizer register a function.
Registering(body) ==
  /\ body.authorized
  /\ body.shape = "object"
  /\ body.method = "tools/call"
  /\ body.params.present
  /\ body.params.name = CREATE
  /\ Keys(body.params.arguments) = <<"function_code">>
  /\ LET code == CodeOf(Get(body.params.arguments, "function_code").val)
     IN  /\ code.compiles
         /\ FunctionsOf(code) /= {}
         /\ ~IsRaised(create_model_from_func(FirstFunction(code)))

RegisteredBy(body) == FirstFunction(CodeOf(Get(body.params.arguments, "function_code").val))

\* C13: no two entries of the registry have the same key and the name field
\* of an entry is its key; a registration leaves under the name of its
\* function the descriptor built from that function and leaves every other
\* entry as it was; any other step leaves the registry as it was.
C13_OneDescriptorPerName ==
  [][/\ \A j, m \in DOMAIN tool_registry' :
          /\ tool_registry'[j].name = tool_registry'[j].key
          /\ (tool_registry'[j].key = tool_registry'[m].key => j = m)
     /\ IF McpStep /\ Registering(mcp_request')
          THEN LET func == RegisteredBy(mcp_request')
               IN  /\ func.name \in Names(tool_registry')
                   /\ Lookup(tool_registry', func.name) = DescriptorOf(func)
                   /\ Names(tool_registry') = Names(tool_registry) \cup {func.name}
                   /\ \A name \in Names(tool_registry) \ {func.name} :
                        Lookup(tool_registry', name) = Lookup(tool_registry, name)
          ELSE tool_registry' = tool_registry]_vars

\* f, registered before n, has been registered again from the source two_fg:
\* its entry is the one of the latest function and n is still registered.
C13_Witness ==
  /\ mcp_request = CreateBody("two_fg")
  /\ KeysOf(tool_registry) = <<SOQL, "execute_universal_api_request", CREATE, "f", "n">>
  /\ Lookup(tool_registry, "f") = DescriptorOf(f_raising)
  /\ Lookup(tool_registry, "n") = DescriptorOf(n_tool)

---------------------------------------------------------------------------
(* Properties of the two pure functions *)

\* C14: running _sanitize_schema on a schema it has already sanitized
\* returns that schema unchanged, for every schema written for a tool.
C14_SanitizeIdempotent ==
  [][passes >= 1 => (~IsRaised(schema_copy') /\ schema_copy' = schema_copy)]_vars

\* The schema of f(p: Optional[str] = None, q: Dict[str, int]) after two
\* runs: the union is merged away, the types are upper case, and the keys
\* title, default and additionalProperties are gone.
C14_Witness ==
  /\ passes = 2
  /\ schema_copy =
       NDict(<<KV("properties",
                  NDict(<<KV("p", NDict(<<KV("description", Str("")), KV("type", Str("STRING"))>>)),
                          KV("q", NDict(<<KV("type", Str("OBJECT")),
                                          KV("description", Str(""))>>))>>)),
               KV("required", NList(Items(<<Str("p"), Str("q")>>))),
               KV("type", Str("OBJECT"))>>)

RECURSIVE NativeForm(_)
\* The native structure equivalent to a structured value: dict for a map,
\* list for a list, None for the null marker, the value for a scalar.
NativeForm(obj) ==
  LET kids == [j \in DOMAIN obj.kids |-> KV(obj.kids[j].k, NativeForm(obj.kids[j].v))]
  IN  CASE obj.t \in {"Struct", "Mapping"} -> NDict(kids)
        [] obj.t \in {"ListValue", "RepeatedComposite"} -> NList(kids)
        [] obj.t = "Value" ->
             IF obj.kind \in {"struct_value", "list_value"} THEN kids[1].v
             ELSE IF obj.kind = "null_value" THEN NNone
             ELSE Native(obj.val)
        [] OTHER -> obj

\* C15: the result of _convert_proto_to_dict is the native structure
\* equivalent to its argument: dicts with the same keys, lists with the same
\* elements in order, scalars, and None for the null marker, at every depth.
C15_NativeStructure ==
  converted /= NotConverted => converted = NativeForm(proto_obj)

\* Serving the request fails before any tool is looked up.
ProcessingFails(body) ==
  \/ body.shape /= "object"
  \/ body.method = "tools/call" /\ ~body.params.present

\* C18: every request served by /mcp is answered with a result or an error
\* that carries the id of the request, an error having one of the two codes
\* and a message: -32601 for an unknown method and for tools/call of a name
\* that is not registered, without any handler invoked, and -32603 when the
\* invoked handler raises or serving the request fails.
C18_JsonRpcAnswers ==
  [][McpStep =>
       LET body   == mcp_request
           answer == mcp_response'
       IN  /\ answer.kind \in {"result", "error"}
           /\ answer.id = body.id
           /\ answer.kind = "error" =>
                (answer.code \in {MethodNotFound, InternalError} /\ answer.message /= <<>>)
           /\ ProcessingFails(body) =>
                (answer.kind = "error" /\ answer.code = InternalError /\ ~mcp_invoked')
           /\ (~ProcessingFails(body)
                 /\ body.method \notin {"initialize", "tools/list", "tools/call"}) =>
                (answer.kind = "error" /\ answer.code = MethodNotFound /\ ~mcp_invoked')
           /\ (~ProcessingFails(body) /\ body.method = "tools/call"
                 /\ body.params.name \notin Names(tool_registry)) =>
                /\ answer.kind = "error"
                /\ answer.code = MethodNotFound
                /\ ~mcp_invoked'
                /\ tool_registry' = tool_registry
           /\ (mcp_invoked' /\ answer.kind = "error") => answer.code = InternalError]_vars

---------------------------------------------------------------------------
(* Requests in flight together *)

\* C17: while a request that registers a tool is in flight, a listing reads
\* schemas, names and descriptions of one and the same registry: it never
\* fails on lists of different lengths, and the declarations it builds are,
\* index by index, the name, description and schema of the entries the
\* registry holds, each tool wholly listed or not listed at all.
C17_ListingSeesWholeDescriptors ==
  [][/\ listing_pc = "line 95" => sanitized_schemas = ReadSchemas(tool_registry)
     /\ listing_pc = "line 96" =>
          /\ sanitized_schemas = ReadSchemas(tool_registry)
          /\ tool_names = ReadNames(tool_registry)
          /\ listing_pc' = "raised" => DeclarationRaises(tool_registry)
     /\ ListingDone =>
          /\ Len(current_tools') = Len(tool_registry')
          /\ \A j \in DOMAIN current_tools' :
               current_tools'[j] = DeclarationOf(tool_registry'[j])]_vars

\* A request that registers f anew is in flight, its body awaited, while a
\* listing that has read the schema of the f registered so far is under way.
C17_Witness ==
  /\ mcp_pc = "line 83"
  /\ mcp_request = CreateBody("new_f")
  /\ listing_pc = "line 96"
  /\ "f" \in Names(tool_registry)
  /\ Lookup(tool_registry, "f") = DescriptorOf(f_tool)
  /\ sanitized_schemas[IndexOf(tool_registry, "f")] = create_model_from_func(f_tool)

\* C31: the failure counters of different tools are independent: dispatching
\* a call of tool A, whatever its outcome (success, error, exception, tool not
\* found, arguments not converted), leaves the counter of every other tool
\* unchanged.
C31_CountersIndependent ==
  [][pc = "dispatch" =>
       \A b \in NameUniverse \ {CurrentCall.name} :
          tool_failure_counts'[b] = tool_failure_counts[b]]_vars

\* Two failures of execute_soql_query are still counted after a call of
\* another tool has succeeded in between.
C31_Witness ==
  /\ tool_failure_counts[SOQL] = 2
  /\ last_dispatch.name \notin {SOQL, ""}
  /\ last_dispatch.kind = "success"
  /\ last_dispatch.invoked

\* The parameter names of a tool schema: the keys under 'properties'.
PropertyNames(schema) == KeySet(DictGet(schema, "properties"))

\* C32: a run of _sanitize_schema keeps every parameter of a tool: the keys
\* under 'properties' afterwards are the keys before, parameters named
\* 'title', 'default' or 'additionalProperties' included.
C32_ParametersKept ==
  [][(passes = 0 /\ passes' = 1 /\ ~IsRaised(schema_copy')) =>
       PropertyNames(schema_copy') = PropertyNames(schema_copy)]_vars

\* The batches of tool results in a history: its user turns after the query.
Batches(h) == Cardinality({j \in 2..Len(h) : h[j] = "user"})

\* C33: when process_user_query returns, every batch of tool results it
\* appended to history has been presented to the model by a later completion
\* request: more requests were made than batches appended.
C33_BatchesPresented ==
  pc = "returned" => requests > Batches(history)

\* C34: the /mcp handler answers every request that passed the key check
\* with a JSON-RPC response object and lets no exception escape; a body that
\* is not valid JSON, a JSON body that is not an object and a tools/call
\* without params are answered with an error object of code -32603.
C34_EndpointNeverRaises ==
  [][McpStep =>
       /\ mcp_response'.kind /= "escaped"
       /\ mcp_response'.kind \in {"result", "error"}
       /\ ProcessingFails(mcp_request) =>
            (mcp_response'.kind = "error" /\ mcp_response'.code = InternalError)]_vars

====
